---- MODULE Spec2Model ----
(***************************************************************************)
(* Billboard_Minerva: the chart extractor (services/billboard.py), the     *)
(* Spotify link resolver (services/links.py) and the retrying HTTP client  *)
(* both of them build.                                                     *)
(*                                                                         *)
(* Python text is a sequence of one-character strings, so that strip,      *)
(* lower, upper, the whitespace normalisation and the percent-encoding are *)
(* computed character by character.  A Python value that may be None is a  *)
(* record [t |-> "none"] or [t |-> "str", v |-> text].                     *)
(***************************************************************************)
EXTENDS Integers, Sequences, FiniteSets, TLC

VARIABLES
    \* ---- services/links.py : best_spotify_link ----
    title,      \* argument title
    artist,     \* argument artist
    lsession,   \* TRUE iff a session was passed in
    lpc,        \* position inside best_spotify_link
    lbuilt,     \* number of sessions built by this call
    it_url,     \* local it_url
    sp,         \* local sp
    lexc,       \* the exception in flight or swallowed ("" when none)
    lcalls,     \* outbound GETs issued, in order
    lresult,    \* the SpotifyLinkResult returned
    \* ---- services/billboard.py : fetch_hot100 ----
    limit,      \* argument limit
    csession,   \* TRUE iff a session was passed in
    cpc,        \* position inside fetch_hot100 and the parsers it calls
    cbuilt,     \* number of sessions built by this call
    cgets,      \* number of GETs issued by this call
    cexc,       \* the exception that left fetch_hot100 ("" when none)
    scripts,    \* the ld+json script elements the loop of line 153 has yet to take
    queue,      \* the queue of the current script element, one tag per object
    qi,         \* objects consumed by the loop of line 171
    obj,        \* the object _parse_jsonld_itemlist is working on
    ii,         \* items consumed by the loop of line 105
    rows,       \* h3s: the chart rows the fallback selected
    ri,         \* rows consumed by the loop of line 196
    seen,       \* the set seen of _parse_html_fallback
    entries,    \* the list entries of the parser that is running
    yields,     \* history: the non-empty lists _parse_jsonld_itemlist returned
    htmlRan,    \* history: _parse_html_fallback was called
    cresult,    \* the list fetch_hot100 returned
    cstatus,    \* r.status_code of the chart page (0 while there is no response)
    amsg,       \* app.py: what the page shows for this call ("" while it runs)
    \* ---- the session of _build_session: one GET through its adapter ----
    hpc,        \* position inside the adapter's send
    hretry,     \* the Retry object of the request: the retries left
    hattempts,  \* requests put on the wire for this GET
    hlog,       \* what each of them ended in, in order
    hout        \* what is handed to the caller

linkVars == <<title, artist, lsession, lpc, lbuilt, it_url, sp, lexc, lcalls, lresult>>

chartVars == <<limit, csession, cpc, cbuilt, cgets, cexc, scripts, queue, qi, obj,
               ii, rows, ri, seen, entries, yields, htmlRan, cresult, cstatus, amsg>>

httpVars == <<hpc, hretry, hattempts, hlog, hout>>

vars == <<linkVars, chartVars, httpVars>>

(***************************************************************************)
(* Text helpers                                                            *)
(***************************************************************************)
Whitespace == {" ", "\t"}

RECURSIVE LStrip(_)
LStrip(s) == IF s # <<>> /\ Head(s) \in Whitespace THEN LStrip(Tail(s)) ELSE s

RECURSIVE RStrip(_)
RStrip(s) ==
    IF s # <<>> /\ s[Len(s)] \in Whitespace THEN RStrip(SubSeq(s, 1, Len(s) - 1)) ELSE s

\* str.strip()
Strip(s) == RStrip(LStrip(s))

\* characters urllib.parse.quote never encodes (letters, digits, "_.-~"),
\* restricted to the alphabet of the model
AlwaysSafe == {"H", "e", "l", "o", "A", "d", "a", "b", "-", "1"}

\* the UTF-8 percent-encoding of the other characters of the model's alphabet
PctEncode(c) ==
    CASE c = " "  -> "%20"
      [] c = "\t" -> "%09"
      [] c = "&"  -> "%26"
      [] c = "%"  -> "%25"
      [] c = "?"  -> "%3F"
      [] c = "/"  -> "%2F"

\* urllib.parse.quote(s, safe): the result as one string
RECURSIVE Quote(_, _)
Quote(s, safe) ==
    IF s = <<>> THEN ""
    ELSE (IF Head(s) \in AlwaysSafe \cup safe THEN Head(s) ELSE PctEncode(Head(s)))
         \o Quote(Tail(s), safe)

(***************************************************************************)
(* Python values                                                           *)
(***************************************************************************)
None == [t |-> "none"]
Str(v) == [t |-> "str", v |-> v]

\* truth value of an Optional[str]: None and "" are falsy
IsTruthyNotNone(x) == x.t # "none"
IsTruthy(x) == x.t = "str" /\ x.v # ""

(***************************************************************************)
(* The components are independent: each specification runs one of them and *)
(* leaves the other's variables at rest.                                   *)
(***************************************************************************)
NoObj == [k |-> "none"]

ChartIdle ==
    /\ limit = 0
    /\ csession = FALSE
    /\ cpc = "idle"
    /\ cbuilt = 0
    /\ cgets = 0
    /\ cexc = ""
    /\ scripts = 0
    /\ queue = <<>>
    /\ qi = 0
    /\ obj = NoObj
    /\ ii = 0
    /\ rows = <<>>
    /\ ri = 0
    /\ seen = {}
    /\ entries = <<>>
    /\ yields = <<>>
    /\ htmlRan = FALSE
    /\ cresult = <<>>
    /\ cstatus = 0
    /\ amsg = ""

HttpIdle ==
    /\ hpc = "idle"
    /\ hretry = [total |-> 0, connect |-> 0, read |-> 0]
    /\ hattempts = 0
    /\ hlog = <<>>
    /\ hout = ""

LinksIdle ==
    /\ title = <<>>
    /\ artist = <<>>
    /\ lsession = FALSE
    /\ lpc = "idle"
    /\ lbuilt = 0
    /\ it_url = None
    /\ sp = None
    /\ lexc = ""
    /\ lcalls = <<>>
    /\ lresult = None

(***************************************************************************)
(* services/links.py                                                       *)
(***************************************************************************)
\* f"{title} {artist}"
Term(t, a) == t \o <<" ">> \o a

SpotifySearchUrlUnstripped(t, a) ==
    "https://open.spotify.com/search/" \o Quote(Term(t, a), {"/"})
spotify_search_url(t, a) ==
    "https://open.spotify.com/search/" \o Quote(Strip(Term(t, a)), {"/"})

\* what can be raised inside the try block: by s.get (ConnectionError, Timeout,
\* RetryError), by raise_for_status (HTTPError), by r.json (ValueError), by
\* data.get / results[0].get on a payload of another shape (AttributeError)
Exceptions == {"ConnectionError", "Timeout", "HTTPError", "ValueError", "AttributeError"}

\* the values results[0].get("trackViewUrl") can have
TrackViewUrls == {None, Str(""), Str("https://music.apple.com/us/album/1")}
\* the values linksByPlatform.spotify.url can have
SpotifyUrls == {None, Str(""), Str("https://open.spotify.com/track/1"),
                Str("https://open.spotify.com/track/2")}

\* `except Exception: pass`: where control goes when e is raised in the try block
ExceptNarrow(e) == IF e \in {"ConnectionError", "Timeout"} THEN "fallback" ELSE "raised"
Except(e) == "fallback"

TitleVals == {<<>>, <<" ">>, <<"H", "e", "l", "l", "o">>, <<" ", "a", "&", "b">>}
ArtistVals == {<<>>, <<"\t">>, <<"A", "d", "e", "l", "e">>, <<"a", "/", "b", " ">>}

InitLinks ==
    /\ title \in TitleVals
    /\ artist \in ArtistVals
    /\ lsession \in BOOLEAN
    /\ lpc = "start"
    /\ lbuilt = 0
    /\ it_url = None
    /\ sp = None
    /\ lexc = ""
    /\ lcalls = <<>>
    /\ lresult = None
    /\ ChartIdle
    /\ HttpIdle

\* line 148: s = session or _build_session()
LinkSession ==
    /\ lpc = "start"
    /\ lbuilt' = IF lsession THEN 0 ELSE 1
    /\ lpc' = "itunes"
    /\ UNCHANGED <<title, artist, lsession, it_url, sp, lexc, lcalls, lresult>>
    /\ UNCHANGED <<chartVars, httpVars>>

\* line 150: it_url = itunes_find_track_url(title, artist, session=s), then line 151
ItunesFindTrackUrl ==
    /\ lpc = "itunes"
    /\ IF Strip(Term(title, artist)) = <<>>
       THEN \* lines 79-80: no request
            /\ it_url' = None
            /\ lpc' = "fallback"
            /\ UNCHANGED <<lexc, lcalls>>
       ELSE /\ lcalls' = Append(lcalls, "itunes")
            /\ \/ \E e \in Exceptions :
                    /\ lexc' = e
                    /\ lpc' = Except(e)
                    /\ UNCHANGED it_url
               \/ \* results is empty
                  /\ it_url' = None
                  /\ lpc' = "fallback"
                  /\ UNCHANGED lexc
               \/ \E u \in TrackViewUrls :
                    /\ it_url' = u
                    /\ lpc' = IF IsTruthy(u) THEN "odesli" ELSE "fallback"
                    /\ UNCHANGED lexc
    /\ UNCHANGED <<title, artist, lsession, lbuilt, sp, lresult>>
    /\ UNCHANGED <<chartVars, httpVars>>

\* line 152: sp = odesli_get_spotify_url(it_url, session=s), then lines 153-154
OdesliGetSpotifyUrl ==
    /\ lpc = "odesli"
    /\ IF ~IsTruthy(it_url)
       THEN \* lines 108-109
            /\ sp' = None
            /\ lpc' = "fallback"
            /\ UNCHANGED <<lexc, lcalls, lresult>>
       ELSE /\ lcalls' = Append(lcalls, "odesli")
            /\ \/ \E e \in Exceptions :
                    /\ lexc' = e
                    /\ lpc' = Except(e)
                    /\ UNCHANGED <<sp, lresult>>
               \/ \* no "spotify" entry, or one that is not a dict
                  /\ sp' = None
                  /\ lpc' = "fallback"
                  /\ UNCHANGED <<lexc, lresult>>
               \/ \E u \in SpotifyUrls :
                    /\ sp' = u
                    /\ IF IsTruthy(u)
                       THEN /\ lresult' = [url |-> u.v, method |-> "odesli"]
                            /\ lpc' = "done"
                       ELSE /\ lpc' = "fallback"
                            /\ UNCHANGED lresult
                    /\ UNCHANGED lexc
    /\ UNCHANGED <<title, artist, lsession, lbuilt, it_url>>
    /\ UNCHANGED <<chartVars, httpVars>>

\* line 158
LinkFallback ==
    /\ lpc = "fallback"
    /\ lresult' = [url |-> spotify_search_url(title, artist), method |-> "search_fallback"]
    /\ lpc' = "done"
    /\ UNCHANGED <<title, artist, lsession, lbuilt, it_url, sp, lexc, lcalls>>
    /\ UNCHANGED <<chartVars, httpVars>>

NextLinks == LinkSession \/ ItunesFindTrackUrl \/ OdesliGetSpotifyUrl \/ LinkFallback

SpecLinks == InitLinks /\ [][NextLinks]_vars

(***************************************************************************)
(* services/billboard.py: text                                             *)
(***************************************************************************)
\* re.sub(r"\s+", " ", s): every run of whitespace becomes one space
RECURSIVE Collapse(_)
Collapse(s) ==
    IF s = <<>> THEN <<>>
    ELSE IF Head(s) \in Whitespace THEN <<" ">> \o Collapse(LStrip(s))
    ELSE <<Head(s)>> \o Collapse(Tail(s))

\* _clean on a str
Clean(s) == Collapse(Strip(s))

UpperLetters == <<"A", "B", "C", "D", "E", "F", "G", "H", "I", "J", "K", "L", "M",
                  "N", "O", "P", "Q", "R", "S", "T", "U", "V", "W", "X", "Y", "Z">>
LowerLetters == <<"a", "b", "c", "d", "e", "f", "g", "h", "i", "j", "k", "l", "m",
                  "n", "o", "p", "q", "r", "s", "t", "u", "v", "w", "x", "y", "z">>
Digits == <<"0", "1", "2", "3", "4", "5", "6", "7", "8", "9">>

IndexIn(c, letters) == CHOOSE i \in 1..Len(letters) : letters[i] = c
IsIn(c, letters) == \E i \in 1..Len(letters) : letters[i] = c

\* str.lower()
RECURSIVE Lower(_)
Lower(s) ==
    IF s = <<>> THEN <<>>
    ELSE <<IF IsIn(Head(s), UpperLetters)
           THEN LowerLetters[IndexIn(Head(s), UpperLetters)] ELSE Head(s)>>
         \o Lower(Tail(s))

\* str.upper()
RECURSIVE Upper(_)
Upper(s) ==
    IF s = <<>> THEN <<>>
    ELSE <<IF IsIn(Head(s), LowerLetters)
           THEN UpperLetters[IndexIn(Head(s), LowerLetters)] ELSE Head(s)>>
         \o Upper(Tail(s))

\* str.isdigit()
IsDigit(s) == s # <<>> /\ \A i \in 1..Len(s) : IsIn(s[i], Digits)

\* the value of a run of decimal digits
RECURSIVE DigitsValue(_)
DigitsValue(s) ==
    IF s = <<>> THEN 0
    ELSE 10 * DigitsValue(SubSeq(s, 1, Len(s) - 1)) + (IndexIn(s[Len(s)], Digits) - 1)

\* entries[:n] for n >= 0
Take(s, n) == SubSeq(s, 1, IF n < Len(s) THEN n ELSE Len(s))

(***************************************************************************)
(* services/billboard.py: JSON values                                      *)
(***************************************************************************)
Num(n) == [t |-> "int", v |-> n]
Txt(s) == [t |-> "str", v |-> s]

\* truth value of a JSON scalar or None
Truthy(x) ==
    CASE x.t = "none" -> FALSE
      [] x.t = "int"  -> x.v # 0
      [] x.t = "str"  -> x.v # <<>>

\* _clean(x): (x or "").strip() raises AttributeError on a truthy non-string
CleanRaises(x) == Truthy(x) /\ x.t # "str"
CleanOf(x) == IF Truthy(x) THEN Clean(x.v) ELSE <<>>

\* int(pos) raises ValueError on text that is no integer literal
IntRaises(pos) ==
    /\ pos.t = "str"
    /\ LET body == Strip(pos.v)
           digits == IF body # <<>> /\ Head(body) \in {"-", "+"} THEN Tail(body) ELSE body
       IN  ~IsDigit(digits)
IntOf(pos) ==
    IF pos.t = "int" THEN pos.v
    ELSE LET body == Strip(pos.v)
         IN  IF Head(body) = "-" THEN 0 - DigitsValue(Tail(body))
             ELSE IF Head(body) = "+" THEN DigitsValue(Tail(body))
             ELSE DigitsValue(body)

\* lines 126-129: the rank of the entry appended when n entries are collected
RankSequential(pos, n) == n + 1
RankOf(pos, n) == IF Truthy(pos) /\ ~IntRaises(pos) THEN IntOf(pos) ELSE n + 1

\* lines 117-121: the artist value of an item
ByName(by) == IF by.k \in {"dict", "list"} THEN by.name ELSE None

\* line 133
ItemListBreakLate(n, lim) == n > lim
ItemListBreak(n, lim) == n >= lim

\* line 176: `if extracted: return extracted`
ShortCircuitNever(extracted) == FALSE
ShortCircuit(extracted) == extracted # <<>>

\* line 239: Response.raise_for_status raises HTTPError on a 4xx or 5xx status
RaiseForStatusServerOnly(st) == st >= 500
RaiseForStatus(st) == st >= 400

\* line 232
LimitExhaustedStrict(lim) == lim < 0
LimitExhausted(lim) == lim <= 0

(***************************************************************************)
(* services/billboard.py: the fallback's text rules                        *)
(***************************************************************************)
RankMarkers == {<<"N", "E", "W">>, <<"R", "E", "-", "E", "N", "T", "R", "Y">>}

\* lines 202-210: the first span text that can be an artist, "" when none
RECURSIVE PickArtist(_)
PickArtist(spans) ==
    IF spans = <<>> THEN <<>>
    ELSE LET txt == Clean(Head(spans))
         IN  IF txt = <<>> THEN PickArtist(Tail(spans))
             ELSE IF Upper(txt) \in RankMarkers THEN PickArtist(Tail(spans))
             ELSE IF Len(txt) >= 2 /\ ~IsDigit(txt) THEN txt
             ELSE PickArtist(Tail(spans))

\* line 212
KeyCaseSensitive(t, a) == <<t, a>>
KeyOf(t, a) == <<Lower(t), Lower(a)>>

\* line 217
HtmlBreak(n, lim) == n >= lim

(***************************************************************************)
(* services/billboard.py: the inputs                                       *)
(***************************************************************************)
MaxLimit == 2
MaxItems == 2
MaxScripts == 2
MaxRows == 3

SeqsUpTo(S, n) == UNION {[1..k -> S] : k \in 0..n}

LimitVals == (0 - 1)..MaxLimit

\* the values of "position"
PosVals == {None, Num(0 - 1), Num(0), Num(1), Num(2), Txt(<<"2">>), Txt(<<"x">>)}

ByArtist(kind, name) == [k |-> kind, name |-> name]
ListItem(pos, name, by) == [k |-> "li", pos |-> pos, name |-> name, by |-> by]

\* the elements of itemListElement: "skip" is an element that is no ListItem
\* dict (lines 106-107), "nodict" a ListItem whose "item" is no dict (111-112)
ItemVals ==
    {[k |-> "skip"], [k |-> "nodict"]}
    \cup {ListItem(p, Txt(<<"a">>), ByArtist("dict", Txt(<<"x">>))) : p \in PosVals}
    \cup {ListItem(Num(1), Txt(<<" ", "b", " ", "\t", "c">>), ByArtist("list", Txt(<<"y", " ">>))),
          ListItem(None, Txt(<<" ">>), ByArtist("none", None)),
          ListItem(None, Num(7), ByArtist("none", None))}

\* the dicts of a queue: one of another @type, an ItemList whose itemListElement
\* is no list, an ItemList
ObjVals ==
    {[k |-> "other"], [k |-> "nolist"]}
    \cup {[k |-> "itemlist", items |-> s] : s \in SeqsUpTo(ItemVals, MaxItems)}

\* lines 163-169: the queue of a script element, one tag per object: the
\* top-level values first, then the dicts of their @graph lists
QueueVals == {<<>>, <<"dict">>, <<"nondict", "dict", "graph">>}

\* lines 154-161: a script element is empty, is no JSON, or is JSON
BlockVals ==
    {[k |-> "empty"], [k |-> "malformed"]} \cup {[k |-> "json", queue |-> q] : q \in QueueVals}

Row(t, spans) == [title |-> t, spans |-> spans]
\* the rows: the text of the h3 and the texts of the spans of its li
RowVals ==
    {Row(<<>>, <<>>),
     Row(<<"a">>, <<>>),
     Row(<<"A">>, <<<<"1", "0">>, <<"x">>>>),
     Row(<<"a">>, <<<<"7">>, <<"N", "e", "w">>, <<"X", "y">>>>),
     Row(<<"A">>, <<<<" ", "x", "y">>, <<"z", "z">>>>),
     Row(<<"b", " ", " ", "c">>, <<<<"R", "E", "-", "E", "N", "T", "R", "Y">>, <<"x", "y">>>>),
     Row(<<" ", "b", " ", "c">>, <<<<>>, <<"x", "y">>>>),
     Row(<<" ">>, <<<<"x", "y">>>>)}

\* s.get raising
GetExceptions == {"ConnectionError", "Timeout"}
\* r.status_code
Statuses == {200, 404, 503}

InitChart ==
    /\ LinksIdle
    /\ HttpIdle
    /\ limit \in LimitVals
    /\ csession \in BOOLEAN
    /\ cpc = "start"
    /\ cbuilt = 0
    /\ cgets = 0
    /\ cexc = ""
    /\ scripts = 0
    /\ queue = <<>>
    /\ qi = 0
    /\ obj = NoObj
    /\ ii = 0
    /\ rows = <<>>
    /\ ri = 0
    /\ seen = {}
    /\ entries = <<>>
    /\ yields = <<>>
    /\ htmlRan = FALSE
    /\ cresult = <<>>
    /\ cstatus = 0
    /\ amsg = ""

(***************************************************************************)
(* services/billboard.py: fetch_hot100                                     *)
(***************************************************************************)
\* lines 232-236
FetchStart ==
    /\ cpc = "start"
    /\ IF LimitExhausted(limit)
       THEN /\ cpc' = "done"
            /\ cresult' = <<>>
            /\ UNCHANGED cbuilt
       ELSE /\ cpc' = "get"
            /\ cbuilt' = IF csession THEN 0 ELSE 1
            /\ UNCHANGED cresult
    /\ UNCHANGED <<limit, csession, cgets, cexc, scripts, queue, qi, obj, ii, rows,
                   ri, seen, entries, yields, htmlRan>>
    /\ UNCHANGED <<linkVars, httpVars, cstatus, amsg>>

\* lines 238-243 and 150-152: the GET, raise_for_status, the parse of the page
\* and the selection of its ld+json script elements
FetchGet ==
    /\ cpc = "get"
    /\ cgets' = cgets + 1
    /\ \/ \E e \in GetExceptions :
            /\ cexc' = e
            /\ cpc' = "raised"
            /\ UNCHANGED <<scripts, cstatus>>
       \/ \E st \in Statuses :
            /\ cstatus' = st
            /\ IF RaiseForStatus(st)
               THEN /\ cexc' = "HTTPError"
                    /\ cpc' = "raised"
                    /\ UNCHANGED scripts
               ELSE /\ \E n \in 0..MaxScripts : scripts' = n
                    /\ cpc' = "scripts"
                    /\ UNCHANGED cexc
    /\ UNCHANGED <<limit, csession, cbuilt, queue, qi, obj, ii, rows, ri, seen,
                   entries, yields, htmlRan, cresult>>
    /\ UNCHANGED <<linkVars, httpVars, amsg>>

\* lines 153-169: one turn of the loop over the script elements; at its end
\* line 179 returns [] and lines 244-245 and 192-195 start the fallback
JsonldNextScript ==
    /\ cpc = "scripts"
    /\ IF scripts = 0
       THEN /\ \E rs \in SeqsUpTo(RowVals, MaxRows) : rows' = rs
            /\ htmlRan' = TRUE
            /\ cpc' = "rows"
            /\ UNCHANGED <<scripts, queue, qi>>
       ELSE /\ scripts' = scripts - 1
            /\ \E b \in BlockVals :
                 IF b.k = "json"
                 THEN /\ queue' = b.queue
                      /\ qi' = 0
                      /\ cpc' = "queue"
                 ELSE UNCHANGED <<queue, qi, cpc>>
            /\ UNCHANGED <<rows, htmlRan>>
    /\ UNCHANGED <<limit, csession, cbuilt, cgets, cexc, obj, ii, ri, seen, entries,
                   yields, cresult>>
    /\ UNCHANGED <<linkVars, httpVars, cstatus, amsg>>

\* lines 171-175 and 96-103: one turn of the loop over the queue, up to the
\* loop over the items of an ItemList
JsonldNextObject ==
    /\ cpc = "queue"
    /\ IF qi = Len(queue)
       THEN /\ cpc' = "scripts"
            /\ queue' = <<>>
            /\ qi' = 0
            /\ UNCHANGED <<obj, ii, entries>>
       ELSE /\ qi' = qi + 1
            /\ UNCHANGED queue
            /\ IF queue[qi + 1] = "nondict"
               THEN UNCHANGED <<cpc, obj, ii, entries>>
               ELSE \E o \in ObjVals :
                      IF o.k = "itemlist"
                      THEN /\ obj' = o
                           /\ ii' = 0
                           /\ entries' = <<>>
                           /\ cpc' = "items"
                      ELSE UNCHANGED <<cpc, obj, ii, entries>>
    /\ UNCHANGED <<limit, csession, cbuilt, cgets, cexc, scripts, rows, ri, seen,
                   yields, htmlRan, cresult>>
    /\ UNCHANGED <<linkVars, httpVars, cstatus, amsg>>

\* line 136, then lines 175-177, then lines 243-247
ItemListReturn(es) ==
    LET extracted == Take(es, limit)
    IN  /\ yields' = IF extracted # <<>> THEN Append(yields, extracted) ELSE yields
        /\ IF ShortCircuit(extracted)
           THEN /\ cresult' = extracted
                /\ cpc' = "done"
                /\ entries' = es
                /\ UNCHANGED obj
           ELSE /\ cpc' = "queue"
                /\ entries' = <<>>
                /\ obj' = NoObj
                /\ UNCHANGED cresult

\* lines 105-134: one turn of the loop over the items
ItemListNextItem ==
    /\ cpc = "items"
    /\ IF ii = Len(obj.items)
       THEN /\ ItemListReturn(entries)
            /\ ii' = 0
            /\ UNCHANGED cexc
       ELSE LET it == obj.items[ii + 1]
            IN  IF it.k # "li"
                THEN /\ ii' = ii + 1
                     /\ UNCHANGED <<cpc, cexc, obj, entries, yields, cresult>>
                ELSE IF CleanRaises(it.name) \/ CleanRaises(ByName(it.by))
                THEN /\ cexc' = "AttributeError"
                     /\ cpc' = "raised"
                     /\ UNCHANGED <<ii, obj, entries, yields, cresult>>
                ELSE IF CleanOf(it.name) = <<>>
                THEN /\ ii' = ii + 1
                     /\ UNCHANGED <<cpc, cexc, obj, entries, yields, cresult>>
                ELSE LET es == Append(entries, [rank   |-> RankOf(it.pos, Len(entries)),
                                                title  |-> CleanOf(it.name),
                                                artist |-> CleanOf(ByName(it.by))])
                     IN  /\ UNCHANGED cexc
                         /\ IF ItemListBreak(Len(es), limit)
                            THEN /\ ItemListReturn(es)
                                 /\ ii' = 0
                            ELSE /\ entries' = es
                                 /\ ii' = ii + 1
                                 /\ UNCHANGED <<cpc, obj, yields, cresult>>
    /\ UNCHANGED <<limit, csession, cbuilt, cgets, scripts, queue, qi, rows, ri,
                   seen, htmlRan>>
    /\ UNCHANGED <<linkVars, httpVars, cstatus, amsg>>

\* line 220, then lines 245-247
HtmlReturn(es) ==
    /\ cresult' = Take(es, limit)
    /\ cpc' = "done"
    /\ entries' = es

\* lines 196-218: one turn of the loop over the rows
HtmlNextRow ==
    /\ cpc = "rows"
    /\ IF ri = Len(rows)
       THEN /\ HtmlReturn(entries)
            /\ UNCHANGED <<ri, seen>>
       ELSE LET r == rows[ri + 1]
                t == Clean(r.title)
                a == PickArtist(r.spans)
                key == KeyOf(t, a)
                add == t # <<>> /\ key \notin seen
                es == IF add
                      THEN Append(entries, [rank |-> Len(entries) + 1, title |-> t, artist |-> a])
                      ELSE entries
            IN  /\ seen' = IF add THEN seen \cup {key} ELSE seen
                /\ ri' = ri + 1
                /\ IF HtmlBreak(Len(es), limit)
                   THEN HtmlReturn(es)
                   ELSE /\ entries' = es
                        /\ UNCHANGED <<cpc, cresult>>
    /\ UNCHANGED <<limit, csession, cbuilt, cgets, cexc, scripts, queue, qi, obj, ii,
                   rows, yields, htmlRan>>
    /\ UNCHANGED <<linkVars, httpVars, cstatus, amsg>>

(***************************************************************************)
(* app.py: the caller of fetch_hot100                                      *)
(***************************************************************************)
\* line 293: st.error(f"Falha ao buscar o Billboard: {e}")
MsgFetchFailed == "Falha ao buscar o Billboard"
\* line 297: st.error("Nao foi possivel extrair as musicas do ranking ...")
MsgNothingExtracted == "Nao foi possivel extrair as musicas do ranking para essa semana"
\* lines 300 on: the table of the songs
MsgTable == "table"

\* lines 289-298: what the page shows once cached_hot100 has returned or raised
AppShowResult ==
    /\ cpc \in {"done", "raised"}
    /\ amsg = ""
    /\ amsg' = IF cpc = "raised" THEN MsgFetchFailed
               ELSE IF cresult = <<>> THEN MsgNothingExtracted
               ELSE MsgTable
    /\ UNCHANGED <<limit, csession, cpc, cbuilt, cgets, cexc, scripts, queue, qi, obj, ii,
                   rows, ri, seen, entries, yields, htmlRan, cresult, cstatus>>
    /\ UNCHANGED <<linkVars, httpVars>>

NextChart ==
    \/ FetchStart
    \/ FetchGet
    \/ JsonldNextScript
    \/ JsonldNextObject
    \/ ItemListNextItem
    \/ HtmlNextRow
    \/ AppShowResult

SpecChart == InitChart /\ [][NextChart]_vars

(***************************************************************************)
(* _build_session (both services): a GET through the HTTPAdapter mounted   *)
(* with Retry(total=3, connect=3, read=3, status_forcelist=...,            *)
(* allowed_methods={"GET"}, raise_on_status=False).  Every failed request  *)
(* makes a new Retry with the counters lowered; the request is given up    *)
(* when a counter has gone below zero.                                     *)
(***************************************************************************)
RetryTotal == 3
RetryConnect == 3
RetryRead == 3
StatusForcelist == {429, 500, 502, 503, 504}

\* what one request on the wire ends in: a connection error, a read error
\* (timeout) or a response with a status
WireErrors == {"connect", "read"}
WireStatuses == {200, 404} \cup StatusForcelist

\* Retry.increment: total always, connect or read by the kind of error
Increment(r, kind) ==
    [total   |-> r.total - 1,
     connect |-> IF kind = "connect" THEN r.connect - 1 ELSE r.connect,
     read    |-> IF kind = "read" THEN r.read - 1 ELSE r.read]

\* Retry.is_exhausted: a counter below zero
IsExhaustedAtZero(r) == r.total <= 0 \/ r.connect <= 0 \/ r.read <= 0
IsExhausted(r) == r.total < 0 \/ r.connect < 0 \/ r.read < 0

\* Retry.is_retry for a GET: the status is in status_forcelist
IsRetry(status) == status \in StatusForcelist

InitHttp ==
    /\ LinksIdle
    /\ ChartIdle
    /\ hpc = "send"
    /\ hretry = [total |-> RetryTotal, connect |-> RetryConnect, read |-> RetryRead]
    /\ hattempts = 0
    /\ hlog = <<>>
    /\ hout = ""

\* one request on the wire and the adapter's decision on its outcome
HttpSend ==
    /\ hpc = "send"
    /\ hattempts' = hattempts + 1
    /\ \/ \E e \in WireErrors :
            /\ hlog' = Append(hlog, e)
            /\ hretry' = Increment(hretry, e)
            /\ IF IsExhausted(Increment(hretry, e))
               THEN /\ hpc' = "raised"
                    /\ hout' = "ConnectionError"
               ELSE /\ hpc' = "backoff"
                    /\ UNCHANGED hout
       \/ \E st \in WireStatuses :
            /\ hlog' = Append(hlog, ToString(st))
            /\ IF IsRetry(st)
               THEN /\ hretry' = Increment(hretry, "status")
                    /\ IF IsExhausted(Increment(hretry, "status"))
                       THEN \* raise_on_status=False: the response is returned
                            /\ hpc' = "returned"
                            /\ hout' = ToString(st)
                       ELSE /\ hpc' = "backoff"
                            /\ UNCHANGED hout
               ELSE /\ hpc' = "returned"
                    /\ hout' = ToString(st)
                    /\ UNCHANGED hretry
    /\ UNCHANGED <<linkVars, chartVars>>

\* Retry.sleep, then the request is sent again
HttpBackoff ==
    /\ hpc = "backoff"
    /\ hpc' = "send"
    /\ UNCHANGED <<hretry, hattempts, hlog, hout>>
    /\ UNCHANGED <<linkVars, chartVars>>

NextHttp == HttpSend \/ HttpBackoff

SpecHttp == InitHttp /\ [][NextHttp]_vars

(***************************************************************************)
(* Properties of the link resolver, checked under SpecLinks                *)
(***************************************************************************)
LinkMethods == {"odesli", "search_fallback"}
NonEmptyUrl(x) == x.t = "str" /\ x.v # ""
\* the catalog search and then the aggregation step both ran and both gave a URL
BothStepsSucceeded ==
    /\ lexc = ""
    /\ NonEmptyUrl(it_url)
    /\ NonEmptyUrl(sp)
    /\ lcalls = <<"itunes", "odesli">>
\* the search URL of the specification: the fixed prefix, then the trimmed
\* "title artist" percent-encoded
ExpectedSearchUrl ==
    "https://open.spotify.com/search/" \o Quote(Strip(title \o <<" ">> \o artist), {"/"})

C2_FallbackUrl ==
    (lpc = "done" /\ ~BothStepsSucceeded) =>
        /\ lresult.method = "search_fallback"
        /\ lresult.url = ExpectedSearchUrl
        /\ (title = <<"H", "e", "l", "l", "o">> /\ artist = <<"A", "d", "e", "l", "e">>
                => lresult.url = "https://open.spotify.com/search/Hello%20Adele")
        /\ (title = <<" ", "a", "&", "b">> /\ artist = <<"a", "/", "b", " ">>
                => lresult.url = "https://open.spotify.com/search/a%26b%20a/b")
        /\ (title = <<>> /\ artist = <<>>
                => lresult.url = "https://open.spotify.com/search/")
C2_Witness ==
    /\ lpc = "done"
    /\ lexc = "Timeout"
    /\ title = <<" ", "a", "&", "b">>
    /\ artist = <<"a", "/", "b", " ">>
    /\ lresult = [url |-> "https://open.spotify.com/search/a%26b%20a/b",
                  method |-> "search_fallback"]

\* C3: the result is method odesli exactly when the catalog search returned a
\* non-empty URL and the aggregation step, given it, returned a non-empty URL;
\* the url is then the aggregation step's URL; no result has an empty url.
C3_ResolvedIff ==
    lpc = "done" =>
        /\ (lresult.method = "odesli" <=> BothStepsSucceeded)
        /\ (lresult.method = "odesli" => lresult.url = sp.v)
        /\ lresult.url # ""
C3_Witness ==
    /\ lpc = "done"
    /\ lresult = [url |-> "https://open.spotify.com/track/2", method |-> "odesli"]
    /\ it_url = Str("https://music.apple.com/us/album/1")

(***************************************************************************)
(* Properties of the chart extractor, checked under SpecChart              *)
(***************************************************************************)
Returned == cpc = "done"
\* the list returned is the one the structured-data strategy took from obj
FromItemList == Returned /\ ~htmlRan /\ obj.k = "itemlist"

\* a ListItem whose item has a name that is text and not blank
WellFormed(it) == it.k = "li" /\ it.name.t = "str" /\ Clean(it.name.v) # <<>>
WellFormedAt(items) == {i \in 1..Len(items) : WellFormed(items[i])}
\* the place in items of the n-th well-formed item
NthWellFormed(items, n) ==
    LET wf == WellFormedAt(items)
    IN  CHOOSE i \in wf : Cardinality({j \in wf : j <= i}) = n
\* a declared position that is an integer: a non-zero number or an integer literal
HasPosition(pos) ==
    \/ pos.t = "int" /\ pos.v # 0
    \/ pos.t = "str" /\ pos.v # <<>> /\ ~IntRaises(pos)

\* C4: every list fetch_hot100 returns has positive ranks in strictly ascending
\* order, hence no rank twice, whichever strategy produced it.
C4_RanksAscending ==
    Returned =>
        \A i \in 1..Len(cresult) :
            /\ cresult[i].rank >= 1
            /\ (i > 1 => cresult[i - 1].rank < cresult[i].rank)

C7_LimitZeroNoNetwork ==
    limit = 0 =>
        /\ cgets = 0
        /\ cbuilt = 0
        /\ cpc \in {"start", "done"}
        /\ (Returned => cresult = <<>>)
C7_Witness == limit = 0 /\ Returned /\ ~csession /\ cresult = <<>>

\* C8: for limit >= 0 the list returned has at most limit entries under both
\* strategies, and neither loop goes on once limit entries are collected.
C8_AtMostLimit ==
    limit >= 0 =>
        /\ Len(entries) <= limit
        /\ (cpc \in {"items", "rows"} => Len(entries) < limit)
        /\ (Returned => Len(cresult) <= limit)
C8_Witness ==
    /\ FromItemList
    /\ limit = 1
    /\ Len(obj.items) = 2
    /\ WellFormedAt(obj.items) = {1, 2}
    /\ Len(cresult) = 1

\* C9: the strategies run in order and the first success wins: the fallback
\* runs only after the structured-data strategy gave nothing, and the first
\* object that yields entries ends the scan and its entries are the result.
C9_FirstSuccessWins ==
    /\ (htmlRan => yields = <<>>)
    /\ (cpc \in {"scripts", "queue", "items"} => ~htmlRan /\ yields = <<>>)
    /\ (yields # <<>> => /\ Returned
                         /\ ~htmlRan
                         /\ Len(yields) = 1
                         /\ cresult = yields[1])
C9_Witness ==
    /\ Returned
    /\ yields # <<>>
    /\ scripts = 1
    /\ qi = 3
    /\ cresult = yields[1]

\* the cleaned title and the artist of a row, and the key the rows are
\* deduplicated by
RowTitle(r) == Clean(r.title)
RowArtist(r) == PickArtist(r.spans)
RowKey(r) == <<Lower(RowTitle(r)), Lower(RowArtist(r))>>
\* the rows that have a title and repeat no earlier row
FirstOccurrences ==
    LET keys == [i \in 1..Len(rows) |-> RowKey(rows[i])]
    IN  {i \in 1..Len(rows) :
            /\ keys[i][1] # <<>>
            /\ \A j \in 1..(i - 1) : keys[j] # keys[i]}

\* C10: when the structured-data strategy gives nothing, the result is the
\* fallback's: no two entries with the same lowercase (title, artist), no empty
\* title, ranks 1..k in document order of first occurrence.
C10_FallbackDedup ==
    (Returned /\ limit > 0 /\ yields = <<>>) =>
        /\ htmlRan
        /\ LET fo == FirstOccurrences
               n == Cardinality(fo)
           IN  /\ Len(cresult) = IF n < limit THEN n ELSE limit
               /\ \A k \in 1..Len(cresult) :
                    LET r == rows[CHOOSE i \in fo : Cardinality({j \in fo : j <= i}) = k]
                    IN  /\ cresult[k].rank = k
                        /\ cresult[k].title # <<>>
                        /\ cresult[k].title = RowTitle(r)
                        /\ cresult[k].artist = RowArtist(r)
        /\ LET low == [k \in 1..Len(cresult) |->
                         <<Lower(cresult[k].title), Lower(cresult[k].artist)>>]
           IN  \A k, m \in 1..Len(cresult) : low[k] = low[m] => k = m
C10_Witness ==
    /\ Returned
    /\ htmlRan
    /\ limit = 2
    /\ Len(rows) = 3
    /\ rows[1] = Row(<<"A">>, <<<<" ", "x", "y">>, <<"z", "z">>>>)
    /\ rows[2] = Row(<<"a">>, <<<<"7">>, <<"N", "e", "w">>, <<"X", "y">>>>)
    /\ Len(cresult) = 2
    /\ cresult[2].title = <<"b", " ", "c">>

(***************************************************************************)
(* Properties of the retrying client, checked under SpecHttp               *)
(***************************************************************************)
Transient == WireErrors \cup {"429", "500", "502", "503", "504"}
HandedOver == hpc \in {"returned", "raised"}

\* C6 as stated: one GET makes at most 3 attempts in total.
C6_AtMostThreeAttempts == hattempts <= 3

\* C6 as amended: one GET makes at most 4 attempts in total, the first and at
\* most 3 retries; it is retried after a transient failure only, and handed to
\* the caller at the first outcome that is not transient or after the 4th attempt.
C6_AtMostFourAttempts ==
    /\ hattempts <= 4
    /\ \A i \in 1..(Len(hlog) - 1) : hlog[i] \in Transient
    /\ (hpc = "backoff" => hattempts < 4 /\ hlog[Len(hlog)] \in Transient)
    /\ (HandedOver => hattempts = 4 \/ hlog[Len(hlog)] \notin Transient)
C6_Witness ==
    /\ hpc = "returned"
    /\ hattempts = 4
    /\ hlog = <<"connect", "503", "read", "429">>
    /\ hout = "429"

(***************************************************************************)
(* Further properties of the chart extractor and its caller (SpecChart)    *)
(* and of the link resolver (SpecLinks)                                    *)
(***************************************************************************)
\* the page was fetched: a response came and raise_for_status let it through
PageFetched == cstatus # 0 /\ cstatus < 400
\* the GET raised, or the response had an error status
FetchFailed == cexc \in GetExceptions \/ cstatus >= 400

\* C11: a malformed structured-data block never surfaces as a failure: once
\* the page is fetched, fetch_hot100 skips such a block, goes on scanning and
\* returns, it does not raise.
C11_MalformedBlockNeverSurfaces ==
    PageFetched => (cpc # "raised" /\ cexc = "")

\* C12: a fetch failure always leaves fetch_hot100 as an exception, never as an
\* empty list; for limit >= 0 an empty list is returned only when limit is 0 or
\* the page was fetched and both strategies found nothing; the caller shows one
\* message for the exception and another for the empty list.
C12_FailureIsNotEmptyList ==
    /\ (FetchFailed => cpc = "raised" /\ cexc # "" /\ cresult = <<>>)
    /\ ((Returned /\ limit >= 0 /\ cresult = <<>>)
            => \/ limit = 0 /\ cgets = 0
               \/ PageFetched /\ cexc = "" /\ yields = <<>> /\ htmlRan)
    /\ (amsg # "" =>
            /\ (cpc = "raised" <=> amsg = MsgFetchFailed)
            /\ ((Returned /\ cresult = <<>>) <=> amsg = MsgNothingExtracted)
            /\ MsgFetchFailed # MsgNothingExtracted)
C12_Witness ==
    /\ cstatus = 503
    /\ cexc = "HTTPError"
    /\ cpc = "raised"
    /\ limit = 2
    /\ amsg = MsgFetchFailed

\* C13: one call of best_spotify_link issues at most two requests, the catalog
\* search first and the aggregation request only after the catalog search
\* returned a non-empty URL; when the catalog search gives nothing or raises,
\* the aggregation service is not called.
C13_AtMostTwoRequestsInOrder ==
    /\ lcalls \in {<<>>, <<"itunes">>, <<"itunes", "odesli">>}
    /\ (Len(lcalls) = 2 => it_url.t = "str" /\ it_url.v # "")
    /\ ((lpc \in {"fallback", "done"} /\ ~(it_url.t = "str" /\ it_url.v # ""))
            => Len(lcalls) <= 1)
C13_Witness ==
    /\ lpc = "done"
    /\ lexc = "Timeout"
    /\ it_url = None
    /\ lcalls = <<"itunes">>
    /\ lresult.method = "search_fallback"

====
